---- MODULE Spec2Model ----
(***************************************************************************)
(* A model of fetch_markets.py: the two source adapters (fetch_yfinance,   *)
(* fetch_fred), the derived 10Y-2Y spread, clean_dataframe_for_export,     *)
(* assemble_and_save (latest.csv overwrite, history.csv append),           *)
(* push_to_google_sheets and main.                                         *)
(*                                                                         *)
(* Floats are fixed-point integers in units of 1/Scale, plus the three     *)
(* IEEE specials; a finite float of magnitude above 1e100 is the separate  *)
(* kind "huge".  Every table cell is a record [k, v, s] so that cells of   *)
(* different Python types can sit in one row.                              *)
(***************************************************************************)
EXTENDS Integers, Sequences, FiniteSets, TLC

VARIABLES
    pc,             \* position of main: "start", "fetched", "saved", "done", "crashed"
    passNo,         \* number of invocations of main started so far
    cfgT, cfgS,     \* the tickers / series dictionaries of the current pass
    respT, respS,   \* what the providers answered for each entry (environment)
    yf_df, fred_df, \* main's local variables of the same name
    df,             \* the DataFrame returned by assemble_and_save
    dirExists,      \* os.path.exists(OUTPUT_DIR)
    latest,         \* data/latest.csv  : [exists, lines]
    history,        \* data/history.csv : [exists, lines]
    remote,         \* the spreadsheet: [History: [exists, rows], Latest: [exists, rows]]
    pushResult,     \* return value of push_to_google_sheets: "none", "True", "False", "raised"
    env,            \* failures the environment injected in the current pass
    log,            \* history of the run kept for stating the claims
    arg, ret        \* input and result of a single function application

vars == <<pc, passNo, cfgT, cfgS, respT, respS, yf_df, fred_df, df, dirExists,
          latest, history, remote, pushResult, env, log, arg, ret>>

(***************************************************************************)
(* Bounds                                                                  *)
(***************************************************************************)
MaxPasses == 2      \* invocations of main in one behaviour
MaxTickers == 2     \* entries of the tickers dictionary in one adapter call
MaxRows == 2        \* rows of a DataFrame handed to the sanitizer on its own
MaxWindow == 3      \* observations in the window history(period="5d") returns
MaxObs == 2         \* observations of a series DataReader returns

(***************************************************************************)
(* Cells and floats                                                        *)
(***************************************************************************)
Scale == 100 * 100

Fin(n) == [k |-> "fin", v |-> n, s |-> ""]
None == [k |-> "none", v |-> 0, s |-> ""]
NaN == [k |-> "nan", v |-> 0, s |-> ""]
PosInf == [k |-> "inf", v |-> 1, s |-> ""]
NegInf == [k |-> "inf", v |-> -1, s |-> ""]
Huge(sign) == [k |-> "huge", v |-> sign, s |-> ""]
Str(t) == [k |-> "str", v |-> 0, s |-> t]
Stamp(n) == [k |-> "ts", v |-> n, s |-> ""]

IsFloat(c) == c.k \in {"fin", "nan", "inf", "huge"}
Sign(n) == IF n < 0 THEN -1 ELSE IF n > 0 THEN 1 ELSE 0
Abs(n) == IF n < 0 THEN -n ELSE n

\* bool(x) of a float: only +0.0 and -0.0 are falsy, NaN and inf are truthy
Truthy(c) == ~(c.k = "fin" /\ c.v = 0)

\* a / b of two floats, b not zero (the callers guard that)
FDiv(a, b) ==
    IF a.k = "nan" \/ b.k = "nan" THEN NaN
    ELSE IF a.k = "inf" /\ b.k = "inf" THEN NaN
    ELSE IF a.k = "inf" THEN (IF a.v * Sign(b.v) < 0 THEN NegInf ELSE PosInf)
    ELSE IF b.k = "inf" THEN Fin(0)
    ELSE Fin((a.v * Scale) \div b.v)

\* a - b of two floats
FSub(a, b) ==
    IF a.k = "nan" \/ b.k = "nan" THEN NaN
    ELSE IF a.k = "inf" /\ b.k = "inf" THEN (IF a.v = b.v THEN NaN ELSE a)
    ELSE IF a.k = "inf" THEN a
    ELSE IF b.k = "inf" THEN (IF b.v > 0 THEN NegInf ELSE PosInf)
    ELSE Fin(a.v - b.v)

\* a * n of a float and a positive integer literal
FMul(a, n) == IF a.k = "fin" THEN Fin(a.v * n) ELSE a

\* round(a, 1): to the nearest tenth, an exact tie to the even tenth
Round1(a) ==
    IF a.k # "fin" THEN a
    ELSE LET tenth == Scale \div 10
             q == a.v \div tenth
             r == a.v % tenth
             up == (2 * r > tenth) \/ (2 * r = tenth /\ q % 2 = 1)
         IN  Fin((IF up THEN q + 1 ELSE q) * tenth)

(***************************************************************************)
(* DataFrames: [columns |-> <<names>>, rows |-> <<rows>>], a row a tuple   *)
(* of cells in column order.  pd.DataFrame([]) has no columns.             *)
(***************************************************************************)
RecordColumns ==
    <<"category", "name", "symbol", "value", "prev_close", "change_pct", "unit", "source">>
EmptyDF == [columns |-> <<>>, rows |-> <<>>]
DataFrame(rows) == IF rows = <<>> THEN EmptyDF ELSE [columns |-> RecordColumns, rows |-> rows]

MkRow(category, name, symbol, value, prev_close, change_pct, unit, source) ==
    <<Str(category), Str(name), Str(symbol), value, prev_close, change_pct, Str(unit), Str(source)>>

(***************************************************************************)
(* Configuration (lines 39-67): a dictionary is the sequence of its        *)
(* (name, symbol) items in insertion order.                                *)
(***************************************************************************)
YF_TICKERS == <<
    <<"S&P 500", "^GSPC">>,
    <<"Dow Jones", "^DJI">>,
    <<"Nasdaq Composite", "^IXIC">> >>

FRED_SERIES == <<
    <<"US 10Y Yield (DGS10)", "DGS10">>,
    <<"US 2Y  Yield (DGS2)", "DGS2">> >>

(***************************************************************************)
(* A provider's answer to one request: it raises, or returns a window of   *)
(* observations (possibly empty), oldest first.                            *)
(***************************************************************************)
Raises(cause) == [raises |-> TRUE, cause |-> cause, obs |-> <<>>]
Returns(obs) == [raises |-> FALSE, cause |-> "", obs |-> obs]

Windows(dom, n) == UNION {[1..m -> dom] : m \in 0..n}
Answers(dom, n) == {Raises("timeout")} \cup {Returns(w) : w \in Windows(dom, n)}

YfErrorTags(symbol) == {"yfinance_error:timeout", "yfinance_error:No data for " \o symbol}
FredErrorTags(code) == {"fred_error:timeout", "fred_error:No FRED data for " \o code}
IsErrorTag(c) ==
    \E sym \in {"^GSPC", "^DJI", "^IXIC", "DGS10", "DGS2"} :
        c.s \in YfErrorTags(sym) \cup FredErrorTags(sym)

(***************************************************************************)
(* fetch_yfinance (lines 78-128)                                           *)
(***************************************************************************)
\* line 94-97: the observation before the latest one, or the latest itself
\* (faulty variant: always the latest observation)
PrevCloseLatest(info) == info[Len(info)]
PrevClose(info) == IF Len(info) >= 2 THEN info[Len(info) - 1] ELSE info[Len(info)]

\* line 99
ChangePct(price, prev_close) ==
    IF Truthy(prev_close) THEN FMul(FSub(FDiv(price, prev_close), Fin(Scale)), 100) ELSE None

YfErrorRow(name, symbol, cause) ==
    MkRow("INDEX/FX/COMMOD", name, symbol, None, None, None, "", "yfinance_error:" \o cause)

\* the body of the loop, lines 82-123: exactly one row, from the try or from the except
YfRow(name, symbol, answer) ==
    IF answer.raises THEN YfErrorRow(name, symbol, answer.cause)
    ELSE IF answer.obs = <<>> THEN YfErrorRow(name, symbol, "No data for " \o symbol)
    ELSE LET info == answer.obs
             price == info[Len(info)]
             prev_close == PrevClose(info)
         IN  MkRow("INDEX/FX/COMMOD", name, symbol, price, prev_close,
                   ChangePct(price, prev_close), "", "yfinance")

\* (faulty variant: an entry whose fetch failed gets no row)
RECURSIVE YfRowsSkipFailed(_, _)
YfRowsSkipFailed(tickers, answers) ==
    IF tickers = <<>> THEN <<>>
    ELSE LET row == YfRow(tickers[1][1], tickers[1][2], answers[1])
         IN  (IF IsErrorTag(row[8]) THEN <<>> ELSE <<row>>)
             \o YfRowsSkipFailed(Tail(tickers), Tail(answers))

YfRows(tickers, answers) ==
    [i \in 1..Len(tickers) |-> YfRow(tickers[i][1], tickers[i][2], answers[i])]

fetch_yfinance(tickers, answers) == DataFrame(YfRows(tickers, answers))

(***************************************************************************)
(* fetch_fred (lines 131-186)                                              *)
(***************************************************************************)
FredErrorRow(name, code, cause) ==
    MkRow("BOND_YIELD", name, code, None, None, None, "%", "fred_error:" \o cause)

\* lines 135-164
FredRow(name, code, answer) ==
    IF answer.raises THEN FredErrorRow(name, code, answer.cause)
    ELSE IF answer.obs = <<>> THEN FredErrorRow(name, code, "No FRED data for " \o code)
    ELSE MkRow("BOND_YIELD", name, code, answer.obs[Len(answer.obs)], None, None, "%", "fred")

FredRows(series, answers) ==
    [i \in 1..Len(series) |-> FredRow(series[i][1], series[i][2], answers[i])]

\* line 170: d = {r["symbol"]: r for r in rows}; the last row of a symbol wins
InDict(rows, symbol) == \E i \in 1..Len(rows) : rows[i][3] = Str(symbol)
DictGet(rows, symbol) ==
    rows[CHOOSE i \in 1..Len(rows) :
            /\ rows[i][3] = Str(symbol)
            /\ \A j \in (i + 1)..Len(rows) : rows[j][3] # Str(symbol)]

\* line 171
\* (faulty variant: one of the two values is enough)
SpreadGuardEither(rows) ==
    /\ InDict(rows, "DGS10") /\ InDict(rows, "DGS2")
    /\ (DictGet(rows, "DGS10")[4] # None \/ DictGet(rows, "DGS2")[4] # None)
SpreadGuard(rows) ==
    /\ InDict(rows, "DGS10") /\ InDict(rows, "DGS2")
    /\ DictGet(rows, "DGS10")[4] # None
    /\ DictGet(rows, "DGS2")[4] # None

\* lines 172-182
SpreadRow(rows) ==
    LET spread_bp == FMul(FSub(DictGet(rows, "DGS10")[4], DictGet(rows, "DGS2")[4]), 100)
    IN  MkRow("BOND_YIELD", "US 10Y-2Y Spread", "SPREAD_10Y_2Y", Round1(spread_bp),
              None, None, "bp", "calc")

\* lines 168-184
WithSpread(rows) == IF SpreadGuard(rows) THEN Append(rows, SpreadRow(rows)) ELSE rows

fetch_fred(series, answers) == DataFrame(WithSpread(FredRows(series, answers)))

(***************************************************************************)
(* clean_dataframe_for_export (lines 189-199)                              *)
(***************************************************************************)
\* line 194, select_dtypes(include=[np.number]): a column that holds floats and,
\* at most, missing values besides them (pandas stores those as NaN in a float
\* column); text columns and columns holding nothing but None are object columns
IsNumericCol(d, j) ==
    /\ \E i \in 1..Len(d.rows) : IsFloat(d.rows[i][j])
    /\ \A i \in 1..Len(d.rows) : IsFloat(d.rows[i][j]) \/ d.rows[i][j] = None

\* line 196: replace([np.inf, -np.inf], None)
\* (faulty variant: -inf is left in place)
ReplaceInfPosOnly(c) == IF c = PosInf THEN None ELSE c
ReplaceInf(c) == IF c.k = "inf" THEN None ELSE c

\* line 197: where(pd.notnull(col), None)
NotNull(c) == c.k \notin {"none", "nan"}
WhereNotNull(c) == IF NotNull(c) THEN c ELSE None

clean_dataframe_for_export(d) ==
    LET numeric_cols == {j \in 1..Len(d.columns) : IsNumericCol(d, j)}
    IN  [columns |-> d.columns,
         rows |-> [i \in 1..Len(d.rows) |->
                     [j \in 1..Len(d.columns) |->
                         IF j \in numeric_cols THEN WhereNotNull(ReplaceInf(d.rows[i][j]))
                         ELSE d.rows[i][j]]]]

(***************************************************************************)
(* DataFrame.to_csv: the lines written, a missing value as the empty       *)
(* string, every other cell by its text                                    *)
(***************************************************************************)
CsvCell(c) == IF NotNull(c) THEN c ELSE Str("")
HeaderLine(columns) == [j \in 1..Len(columns) |-> Str(columns[j])]
CsvRows(d) == [i \in 1..Len(d.rows) |-> [j \in 1..Len(d.columns) |-> CsvCell(d.rows[i][j])]]
CsvLines(d, header) == (IF header THEN <<HeaderLine(d.columns)>> ELSE <<>>) \o CsvRows(d)

NoFile == [exists |-> FALSE, lines |-> <<>>]

\* What a failing write leaves behind: "open" fails before the file is touched,
\* "cut" after n of the lines went out.
Ok == [kind |-> "ok", n |-> 0]
OpenFails == [kind |-> "open", n |-> 0]
Cut(n) == [kind |-> "cut", n |-> n]
Faults(lines) == {OpenFails, Cut(0)} \cup (IF Len(lines) > 1 THEN {Cut(Len(lines) - 1)} ELSE {})

Written(lines, fault) ==
    IF fault.kind = "ok" THEN lines
    ELSE IF fault.kind = "cut" THEN SubSeq(lines, 1, fault.n) ELSE <<>>

\* to_csv(path) with mode="w": the file is truncated when it is opened
WriteFile(file, lines, fault) ==
    IF fault.kind = "open" THEN file
    ELSE [exists |-> TRUE, lines |-> Written(lines, fault)]

\* to_csv(path, mode="a")
\* (faulty variant: the file is opened with mode="w")
AppendFileTruncating(file, lines, fault) ==
    IF fault.kind = "open" THEN file
    ELSE [exists |-> TRUE, lines |-> Written(lines, fault)]
AppendFile(file, lines, fault) ==
    IF fault.kind = "open" THEN file
    ELSE [exists |-> TRUE, lines |-> file.lines \o Written(lines, fault)]

(***************************************************************************)
(* assemble_and_save (lines 202-230)                                       *)
(***************************************************************************)
\* lines 209, 214: the non-empty frames, concatenated in list order
RECURSIVE ConcatRows(_)
ConcatRows(df_list) ==
    IF df_list = <<>> THEN <<>> ELSE df_list[1].rows \o ConcatRows(Tail(df_list))

\* lines 214-218: concat, insert the timestamp as column 0, clean
Batch(df_list, ts) ==
    LET rows == ConcatRows(df_list)
    IN  IF rows = <<>> THEN EmptyDF
        ELSE clean_dataframe_for_export(
                 [columns |-> <<"timestamp_utc">> \o RecordColumns,
                  rows |-> [i \in 1..Len(rows) |-> <<Stamp(ts)>> \o rows[i]]])

\* lines 224-227: with the header when the file does not exist, appended
\* without it when it does
\* (faulty variant: the header goes out with every batch)
HistoryHeaderAlways(file) == TRUE
HistoryHeader(file) == ~file.exists

SaveHistory(file, d, fault) ==
    IF ~file.exists THEN WriteFile(file, CsvLines(d, HistoryHeader(file)), fault)
    ELSE AppendFile(file, CsvLines(d, HistoryHeader(file)), fault)

\* line 221
SaveLatest(file, d, fault) == WriteFile(file, CsvLines(d, TRUE), fault)

\* The faults the environment can inject into one call: none, or one at the
\* first step that fails (nothing after it runs).
NoFaults == [dir |-> FALSE, latest |-> Ok, history |-> Ok]
LocalFaults(d, dirThere, file) ==
    {NoFaults}
    \cup (IF dirThere THEN {} ELSE {[NoFaults EXCEPT !.dir = TRUE]})
    \cup (IF d.rows = <<>> THEN {}
          ELSE {[NoFaults EXCEPT !.latest = f] : f \in Faults(CsvLines(d, TRUE))}
               \cup {[NoFaults EXCEPT !.history = f] :
                        f \in Faults(CsvLines(d, HistoryHeader(file)))})

\* which step of assemble_and_save raises, if any
\* (faulty variant: a failing write is swallowed)
SwallowFaults(d, faults) == "none"
RaisedBy(d, faults) ==
    IF faults.dir THEN "ensure_dir"
    ELSE IF d.rows = <<>> THEN "none"
    ELSE IF faults.latest.kind # "ok" THEN "latest"
    ELSE IF faults.history.kind # "ok" THEN "history"
    ELSE "none"

(***************************************************************************)
(* push_to_google_sheets (lines 233-321)                                   *)
(***************************************************************************)
\* lines 276-284
safe_convert(val) ==
    IF val = None \/ val.k \in {"nan", "inf"} THEN Str("")
    ELSE IF val.k = "huge" THEN Str("")
    ELSE val

\* lines 273, 287-289
SheetValues(d) ==
    LET df_clean == clean_dataframe_for_export(d)
    IN  [i \in 1..Len(df_clean.rows) |->
            [j \in 1..Len(df_clean.columns) |-> safe_convert(df_clean.rows[i][j])]]

NoSheet == [exists |-> FALSE, rows |-> <<>>]
NoSheets == [History |-> NoSheet, Latest |-> NoSheet]

\* lines 235-245: the three preconditions, read from the module globals
Configured == [gspread |-> TRUE, creds |-> "json", sheetId |-> TRUE]
Settings ==
    {Configured,
     [Configured EXCEPT !.gspread = FALSE],
     [Configured EXCEPT !.creds = "unset"],
     [Configured EXCEPT !.sheetId = FALSE],
     [Configured EXCEPT !.creds = "not json"]}
Preconditions(settings) == settings.gspread /\ settings.creds # "unset" /\ settings.sheetId

\* The remote calls of one sync in program order (lines 257-311), given the
\* sheets as they are when it starts.  json.loads (line 249) comes first and
\* is local.
Plan(sheets, d) ==
    <<"json.loads", "open_by_key", "worksheet(History)">>
    \o (IF sheets.History.exists THEN <<>> ELSE <<"add_worksheet(History)", "History.append_row">>)
    \o (IF SheetValues(d) # <<>> THEN <<"History.append_rows">> ELSE <<>>)
    \o <<"worksheet(Latest)">>
    \o (IF sheets.Latest.exists THEN <<"Latest.clear">> ELSE <<"add_worksheet(Latest)">>)
    \o <<"Latest.append_row">>
    \o (IF SheetValues(d) # <<>> THEN <<"Latest.append_rows">> ELSE <<>>)

\* append_row(values): a row without cells writes nothing
AppendRow(rows, values) == IF values = <<>> THEN rows ELSE Append(rows, values)

\* the effect of one remote call that returns
ApplyOp(sheets, op, d) ==
    CASE op = "add_worksheet(History)" -> [sheets EXCEPT !.History = [exists |-> TRUE, rows |-> <<>>]]
      [] op = "History.append_row" ->
            [sheets EXCEPT !.History.rows = AppendRow(@, HeaderLine(d.columns))]
      [] op = "History.append_rows" -> [sheets EXCEPT !.History.rows = @ \o SheetValues(d)]
      [] op = "Latest.clear" -> [sheets EXCEPT !.Latest.rows = <<>>]
      [] op = "add_worksheet(Latest)" -> [sheets EXCEPT !.Latest = [exists |-> TRUE, rows |-> <<>>]]
      [] op = "Latest.append_row" ->
            [sheets EXCEPT !.Latest.rows = AppendRow(@, HeaderLine(d.columns))]
      [] op = "Latest.append_rows" -> [sheets EXCEPT !.Latest.rows = @ \o SheetValues(d)]
      [] OTHER -> sheets

RECURSIVE RunOps(_, _, _, _)
RunOps(sheets, plan, n, d) ==
    IF n = 0 THEN sheets ELSE ApplyOp(RunOps(sheets, plan, n - 1, d), plan[n], d)

\* The calls that must raise: json.loads on credentials that are not JSON, and
\* add_worksheet with cols=len(df.columns) = 0, which the service rejects.
MustRaise(op, d, settings) ==
    \/ op = "json.loads" /\ settings.creds = "not json"
    \/ op \in {"add_worksheet(History)", "add_worksheet(Latest)"} /\ d.columns = <<>>

\* The places where a sync can raise: 0 for nowhere, else the index in the
\* plan of the call that raises.  Any remote call can raise.
RaisePoints(sheets, d, settings) ==
    LET plan == Plan(sheets, d)
        forced == {n \in 1..Len(plan) : MustRaise(plan[n], d, settings)}
    IN  IF forced # {}
        THEN LET first == CHOOSE n \in forced : \A m \in forced : n <= m
             IN  (2..first) \cup {first}
        ELSE {0} \cup (2..Len(plan))

\* lines 316-321: every exception raised inside the try is turned into False
\* (faulty variant: the exception leaves the function)
ExceptPropagates(raisedAt) == IF raisedAt = 0 THEN "True" ELSE "raised"
Except(raisedAt) == IF raisedAt = 0 THEN "True" ELSE "False"

\* the sheets after a sync, and what it returns
SheetsAfter(sheets, d, settings, raiseAt) ==
    IF ~Preconditions(settings) THEN sheets
    ELSE LET plan == Plan(sheets, d)
         IN  RunOps(sheets, plan, IF raiseAt = 0 THEN Len(plan) ELSE raiseAt - 1, d)

push_to_google_sheets(sheets, d, settings, raiseAt) ==
    IF ~Preconditions(settings) THEN "False" ELSE Except(raiseAt)

(***************************************************************************)
(* The environment of one invocation of main                               *)
(***************************************************************************)
NoEnv == [faults |-> NoFaults, settings |-> Configured, raiseAt |-> 0]
NoLog == [passes |-> 0, rows |-> 0, faulted |-> FALSE, emptied |-> FALSE]
NoArg == [fn |-> "", tickers |-> <<>>, answers |-> <<>>, df |-> EmptyDF]
NoRet == [df |-> EmptyDF, again |-> EmptyDF, values |-> <<>>]

\* main reads the module globals YF_TICKERS and FRED_SERIES (the __main__
\* block assigns into YF_TICKERS).  A run draws them from MainConfigs: the
\* configured dictionaries, YF_TICKERS cut to its first entry, and the empty
\* dictionaries, for which every source collection of the pass is empty.
Closes == {Fin(0), Fin(9000), Fin(10000), NaN, PosInf, NegInf}
Yields == {Fin(41003), Fin(42500), NaN, PosInf, NegInf}
MainConfigs == {[tickers |-> <<>>, series |-> <<>>],
                [tickers |-> SubSeq(YF_TICKERS, 1, 1), series |-> FRED_SERIES]}
MainTickerAnswers == {Returns(<<NaN>>), Returns(<<Fin(9000), Fin(10000)>>)}
MainSeriesAnswers ==
    {<<Returns(<<Fin(42500)>>), Returns(<<Fin(41003)>>)>>,
     <<Raises("timeout"), Returns(<<Fin(41003)>>)>>}

Init ==
    /\ pc = "start" /\ passNo = 0
    /\ cfgT = <<>> /\ cfgS = <<>> /\ respT = <<>> /\ respS = <<>>
    /\ yf_df = EmptyDF /\ fred_df = EmptyDF /\ df = EmptyDF
    /\ dirExists = FALSE
    /\ latest = NoFile /\ history = NoFile
    /\ remote = NoSheets
    /\ pushResult = "none"
    /\ env = NoEnv /\ log = NoLog
    /\ arg = NoArg /\ ret = NoRet

(***************************************************************************)
(* main (lines 324-337), one action per call it makes.  A new invocation   *)
(* starts from the files and sheets the previous one left.                 *)
(***************************************************************************)
\* lines 328-329
Fetch ==
    /\ pc \in {"start", "done", "crashed"}
    /\ passNo < MaxPasses
    /\ \E c \in MainConfigs :
       \E aT \in [1..Len(c.tickers) -> MainTickerAnswers], aS \in MainSeriesAnswers :
          /\ cfgT' = c.tickers
          /\ cfgS' = c.series
          /\ respT' = aT
          /\ respS' = SubSeq(aS, 1, Len(c.series))
          /\ yf_df' = fetch_yfinance(cfgT', respT')
          /\ fred_df' = fetch_fred(cfgS', respS')
    /\ pc' = "fetched"
    /\ passNo' = passNo + 1
    /\ df' = EmptyDF
    /\ pushResult' = "none"
    /\ env' = NoEnv
    /\ UNCHANGED <<dirExists, latest, history, remote, log, arg, ret>>

\* line 332: assemble_and_save([yf_df, fred_df])
AssembleAndSave ==
    /\ pc = "fetched"
    /\ LET batch == Batch(<<yf_df, fred_df>>, passNo)
       IN  \E faults \in LocalFaults(batch, dirExists, history) :
             LET raised == RaisedBy(batch, faults)
                 written == raised \in {"none", "history"} /\ batch.rows # <<>>
             IN  /\ env' = [env EXCEPT !.faults = faults]
                 /\ dirExists' = (dirExists \/ ~faults.dir)
                 /\ latest' = IF raised # "ensure_dir" /\ batch.rows # <<>>
                              THEN SaveLatest(latest, batch, faults.latest) ELSE latest
                 /\ history' = IF written
                               THEN SaveHistory(history, batch, faults.history) ELSE history
                 /\ df' = IF raised = "none" THEN batch ELSE EmptyDF
                 /\ pc' = IF raised = "none" THEN "saved" ELSE "crashed"
                 /\ log' = [passes |-> log.passes + (IF raised = "none" THEN 1 ELSE 0),
                            rows |-> log.rows + (IF raised = "none"
                                                 THEN Len(cfgT) + Len(cfgS)
                                                      + (IF SpreadGuard(FredRows(cfgS, respS))
                                                         THEN 1 ELSE 0)
                                                 ELSE 0),
                            faulted |-> log.faulted \/ raised # "none",
                            emptied |-> log.emptied \/ batch.rows = <<>>]
    /\ UNCHANGED <<passNo, cfgT, cfgS, respT, respS, yf_df, fred_df, remote, pushResult,
                   arg, ret>>

\* line 335: push_to_google_sheets(df); line 337 is reached when it returns
Push ==
    /\ pc = "saved"
    /\ \E settings \in Settings :
       \E raiseAt \in (IF Preconditions(settings)
                       THEN RaisePoints(remote, df, settings) ELSE {0}) :
          /\ env' = [env EXCEPT !.settings = settings, !.raiseAt = raiseAt]
          /\ remote' = SheetsAfter(remote, df, settings, raiseAt)
          /\ pushResult' = push_to_google_sheets(remote, df, settings, raiseAt)
          /\ pc' = IF pushResult' = "raised" THEN "crashed" ELSE "done"
    /\ UNCHANGED <<passNo, cfgT, cfgS, respT, respS, yf_df, fred_df, df, dirExists,
                   latest, history, log, arg, ret>>

Next == Fetch \/ AssembleAndSave \/ Push

Spec == Init /\ [][Next]_vars

(***************************************************************************)
(* The functions applied on their own: the initial state draws the input   *)
(* of one call from bounded sets, the action applies the function to it.   *)
(***************************************************************************)
Min(a, b) == IF a < b THEN a ELSE b

SeriesConfigs ==
    {<<>>, FRED_SERIES, <<FRED_SERIES[2], FRED_SERIES[1]>>,
     <<FRED_SERIES[1]>>, <<FRED_SERIES[2]>>}

\* The inputs: fetch_yfinance over one ticker with every window of
\* observations, and over several tickers with each ticker failing, empty or
\* answering; fetch_fred over the series dictionaries; the sanitizer over
\* frames of the shape assemble_and_save builds (lines 214-215)
TickerAnswers == {Raises("timeout"), Returns(<<>>)} \cup MainTickerAnswers
Floats == {Fin(10000), None, NaN, PosInf, NegInf, Huge(1)}
Frame(cells) ==
    [columns |-> <<"timestamp_utc">> \o RecordColumns,
     rows |-> [i \in 1..Len(cells) |->
                 <<Stamp(1)>> \o MkRow("INDEX/FX/COMMOD", "S&P 500", "^GSPC",
                                       cells[i][1], cells[i][2], None, "", "yfinance")]]

Call(fn, tickers, answers, d) == [fn |-> fn, tickers |-> tickers, answers |-> answers, df |-> d]

Inputs ==
    \/ \E a \in Answers(Closes, MaxWindow) :
          arg = Call("fetch_yfinance", SubSeq(YF_TICKERS, 1, 1), <<a>>, EmptyDF)
    \/ \E n \in 0..Min(MaxTickers, Len(YF_TICKERS)) :
       \E answers \in [1..n -> TickerAnswers] :
          arg = Call("fetch_yfinance", SubSeq(YF_TICKERS, 1, n), answers, EmptyDF)
    \/ \E series \in SeriesConfigs :
       \E answers \in [1..Len(series) -> Answers(Yields, MaxObs)] :
          arg = Call("fetch_fred", series, answers, EmptyDF)
    \/ \E m \in 1..MaxRows :
       \E cells \in [1..m -> Floats \X Floats] :
          arg = Call("clean_dataframe_for_export", <<>>, <<>>, Frame(cells))

InitCalls ==
    /\ pc = "call" /\ passNo = 0
    /\ cfgT = <<>> /\ cfgS = <<>> /\ respT = <<>> /\ respS = <<>>
    /\ yf_df = EmptyDF /\ fred_df = EmptyDF /\ df = EmptyDF
    /\ dirExists = FALSE
    /\ latest = NoFile /\ history = NoFile
    /\ remote = NoSheets
    /\ pushResult = "none"
    /\ env = NoEnv /\ log = NoLog
    /\ Inputs
    /\ ret = NoRet

Returned == <<passNo, cfgT, cfgS, respT, respS, yf_df, fred_df, df, dirExists,
              latest, history, remote, pushResult, env, log, arg>>

CallFetchYfinance ==
    /\ pc = "call" /\ arg.fn = "fetch_yfinance"
    /\ ret' = [NoRet EXCEPT !.df = fetch_yfinance(arg.tickers, arg.answers)]
    /\ pc' = "returned"
    /\ UNCHANGED Returned

CallFetchFred ==
    /\ pc = "call" /\ arg.fn = "fetch_fred"
    /\ ret' = [NoRet EXCEPT !.df = fetch_fred(arg.tickers, arg.answers)]
    /\ pc' = "returned"
    /\ UNCHANGED Returned

\* clean_dataframe_for_export(df), once and twice, and the rows
\* push_to_google_sheets sends for the cleaned frame
CallClean ==
    /\ pc = "call" /\ arg.fn = "clean_dataframe_for_export"
    /\ ret' = [df |-> clean_dataframe_for_export(arg.df),
               again |-> clean_dataframe_for_export(clean_dataframe_for_export(arg.df)),
               values |-> SheetValues(clean_dataframe_for_export(arg.df))]
    /\ pc' = "returned"
    /\ UNCHANGED Returned

NextCalls == CallFetchYfinance \/ CallFetchFred \/ CallClean

SpecCalls == InitCalls /\ [][NextCalls]_vars

(***************************************************************************)
(* Properties of the adapters and the sanitizer (checked under SpecCalls)  *)
(***************************************************************************)
Failed(answer) == answer.raises \/ answer.obs = <<>>
Latest(answer) == answer.obs[Len(answer.obs)]
ReturnedFrom(fn) == pc = "returned" /\ arg.fn = fn
SymbolsOf(rows) == [i \in 1..Len(rows) |-> rows[i][3].s]

\* row i of the result is the record of entry i of the dictionary: tagged as
\* an error exactly when the fetch of that entry failed, and otherwise
\* carrying the latest observation of that entry
RecordOfEntry(row, entry, answer, provider) ==
    /\ row[2] = Str(entry[1])
    /\ row[3] = Str(entry[2])
    /\ IsErrorTag(row[8]) <=> Failed(answer)
    /\ Failed(answer) => row[4] = None /\ row[5] = None /\ row[6] = None
    /\ ~Failed(answer) => row[4] = Latest(answer) /\ row[8] = Str(provider)

\* C1: fetch_yfinance and fetch_fred return exactly one record per configured
\* (name, symbol) entry, in configuration order, whichever fetches fail; a
\* failing fetch gives one error-tagged record for its entry and leaves the
\* records of the other entries as they are; the only extra record is the
\* spread appended after the FRED records.
OneRecordPerEntry ==
    /\ ReturnedFrom("fetch_yfinance") =>
          /\ Len(ret.df.rows) = Len(arg.tickers)
          /\ \A i \in 1..Len(arg.tickers) :
                RecordOfEntry(ret.df.rows[i], arg.tickers[i], arg.answers[i], "yfinance")
    /\ ReturnedFrom("fetch_fred") =>
          /\ Len(ret.df.rows) \in {Len(arg.tickers), Len(arg.tickers) + 1}
          /\ \A i \in 1..Len(arg.tickers) :
                RecordOfEntry(ret.df.rows[i], arg.tickers[i], arg.answers[i], "fred")
          /\ \A i \in (Len(arg.tickers) + 1)..Len(ret.df.rows) :
                ret.df.rows[i][3] = Str("SPREAD_10Y_2Y")

\* C1 witness: a call over two tickers in which the first fetch fails and the
\* second succeeds
OneFailsOtherKept ==
    /\ ReturnedFrom("fetch_yfinance")
    /\ Len(arg.tickers) = 2
    /\ Failed(arg.answers[1]) /\ ~Failed(arg.answers[2])
    /\ Len(ret.df.rows) = 2
    /\ ret.df.rows[2][4] = Fin(10000)

\* the answer given for a series code, if the dictionary has it
HasSeries(code) == \E i \in 1..Len(arg.tickers) : arg.tickers[i][2] = code
AnswerFor(code) == arg.answers[CHOOSE i \in 1..Len(arg.tickers) : arg.tickers[i][2] = code]
SpreadRows == {i \in 1..Len(ret.df.rows) : ret.df.rows[i][3] = Str("SPREAD_10Y_2Y")}

\* C7: fetch_fred appends the spread record (SPREAD_10Y_2Y, BOND_YIELD, unit
\* "bp", source "calc") exactly when the DGS10 and the DGS2 record of the call
\* both have a value, and its value is (DGS10 - DGS2) * 100 rounded to one
\* decimal; when an input failed there is no spread record and no error
\* record for it, and the series records are the same either way.
SpreadWhenBothPresent ==
    ReturnedFrom("fetch_fred") =>
       LET both == /\ HasSeries("DGS10") /\ ~Failed(AnswerFor("DGS10"))
                   /\ HasSeries("DGS2") /\ ~Failed(AnswerFor("DGS2"))
           n == Len(arg.tickers)
       IN  /\ both => SpreadRows = {n + 1} /\ Len(ret.df.rows) = n + 1
           /\ ~both => SpreadRows = {} /\ Len(ret.df.rows) = n
           /\ SymbolsOf(SubSeq(ret.df.rows, 1, n)) = [i \in 1..n |-> arg.tickers[i][2]]
           /\ both =>
                LET row == ret.df.rows[n + 1]
                    long == Latest(AnswerFor("DGS10"))
                    short == Latest(AnswerFor("DGS2"))
                    tenth == Scale \div 10
                IN  /\ row[1] = Str("BOND_YIELD") /\ row[7] = Str("bp") /\ row[8] = Str("calc")
                    /\ row[5] = None /\ row[6] = None
                    /\ (long.k = "fin" /\ short.k = "fin") =>
                          /\ row[4].k = "fin"
                          /\ row[4].v % tenth = 0
                          /\ 2 * Abs(row[4].v - (long.v - short.v) * 100) <= tenth
                    /\ (long.k # "fin" \/ short.k # "fin") => row[4].k \in {"nan", "inf"}

\* C7 witness: both series answered, and rounding to one decimal changed the
\* spread (4.2500 - 4.1003 = 14.97 bp, recorded as 15.0)
SpreadRounded ==
    /\ ReturnedFrom("fetch_fred")
    /\ arg.tickers = FRED_SERIES
    /\ ~Failed(arg.answers[1]) /\ ~Failed(arg.answers[2])
    /\ Latest(arg.answers[1]) = Fin(42500) /\ Latest(arg.answers[2]) = Fin(41003)
    /\ Len(ret.df.rows) = 3
    /\ ret.df.rows[3][4] = Fin(150000)

\* what the price record of a window must hold, whatever the window's length
PriceRecordRule(row, info) ==
    LET value == row[4]
        prev_close == row[5]
        change_pct == row[6]
    IN  /\ value = info[Len(info)]
        /\ Len(info) >= 2 => prev_close = info[Len(info) - 1]
        /\ Len(info) = 1 => prev_close = value
        /\ prev_close = Fin(0) => change_pct = None
        /\ (prev_close.k = "fin" /\ prev_close.v > 0 /\ value.k = "fin") =>
              \* change_pct = (value / prev_close - 1) * 100, the quotient exact
              \* to one unit of the fixed-point scale
              /\ change_pct.k = "fin"
              /\ change_pct.v % 100 = 0
              /\ LET q == change_pct.v \div 100 + Scale
                 IN  q * prev_close.v <= value.v * Scale
                     /\ value.v * Scale < (q + 1) * prev_close.v
        \* the same expression on the IEEE specials
        /\ (prev_close # Fin(0) /\ (value.k = "nan" \/ prev_close.k = "nan")) =>
              change_pct = NaN
        /\ (prev_close.k = "inf" /\ value.k = "inf") => change_pct = NaN
        /\ (prev_close.k = "inf" /\ value.k = "fin") => change_pct = Fin(-100 * Scale)
        /\ (prev_close.k = "fin" /\ prev_close.v > 0 /\ value.k = "inf") => change_pct = value

\* C8 as claimed: change_pct is (value / prev_close - 1) * 100 when prev_close
\* is present and nonzero and absent when it is absent or zero; prev_close is
\* the second most recent observation; and when the window holds only one
\* observation prev_close equals value and change_pct is 0.  (Stated for
\* windows of one finite observation, which is all the refutation needs.)
SingleObservationIsZeroChange ==
    ReturnedFrom("fetch_yfinance") =>
       \A i \in 1..Len(arg.tickers) :
          ~Failed(arg.answers[i]) =>
             /\ PriceRecordRule(ret.df.rows[i], arg.answers[i].obs)
             /\ (Len(arg.answers[i].obs) = 1 /\ arg.answers[i].obs[1].k = "fin") =>
                   ret.df.rows[i][5] = ret.df.rows[i][4] /\ ret.df.rows[i][6] = Fin(0)

\* C8, amended: for every price record, prev_close is the second most recent
\* observation of the window, or the only one; change_pct is absent when
\* prev_close is zero and (value / prev_close - 1) * 100 when prev_close is
\* a nonzero number; a window of one observation gives change_pct 0 when the
\* observation is a nonzero finite number, absent when it is zero, and
\* not-a-number when it is not-a-number or infinite.  An error record has
\* neither prev_close nor change_pct.
ChangePctRule ==
    ReturnedFrom("fetch_yfinance") =>
       \A i \in 1..Len(arg.tickers) :
          /\ Failed(arg.answers[i]) => ret.df.rows[i][5] = None /\ ret.df.rows[i][6] = None
          /\ ~Failed(arg.answers[i]) =>
                LET row == ret.df.rows[i]
                    info == arg.answers[i].obs
                IN  /\ PriceRecordRule(row, info)
                    /\ Len(info) = 1 =>
                          /\ (info[1].k = "fin" /\ info[1].v # 0) => row[6] = Fin(0)
                          /\ info[1] = Fin(0) => row[6] = None
                          /\ info[1].k \in {"nan", "inf"} => row[6] = NaN

\* C8 witness: a window of three observations whose last two differ, so that
\* prev_close is neither the latest nor the oldest and change_pct is not 0
PrevCloseIsSecondLatest ==
    /\ ReturnedFrom("fetch_yfinance")
    /\ Len(arg.tickers) = 1
    /\ arg.answers[1] = Returns(<<Fin(0), Fin(9000), Fin(10000)>>)
    /\ ret.df.rows[1][5] = Fin(9000)
    /\ ret.df.rows[1][6] = Fin(111100)

\* C9: clean_dataframe_for_export is idempotent; no numeric field of its
\* output is infinite or not-a-number (such a value becomes the absent
\* marker, not zero, and every other cell is kept); and no cell that
\* push_to_google_sheets sends is infinite, not-a-number or of magnitude
\* above 1e100.
SanitizeIdempotentAndFinite ==
    ReturnedFrom("clean_dataframe_for_export") =>
       /\ ret.again = ret.df
       /\ ret.df.columns = arg.df.columns
       /\ Len(ret.df.rows) = Len(arg.df.rows)
       /\ \A i \in 1..Len(arg.df.rows) : \A j \in 1..Len(arg.df.columns) :
             LET before == arg.df.rows[i][j]
                 after == ret.df.rows[i][j]
             IN  /\ after.k \notin {"nan", "inf"}
                 /\ before.k \in {"nan", "inf"} => after = None
                 /\ before.k \notin {"nan", "inf"} => after = before
       /\ Len(ret.values) = Len(arg.df.rows)
       /\ \A i \in 1..Len(ret.values) : \A j \in 1..Len(ret.values[i]) :
             ret.values[i][j].k \notin {"nan", "inf", "huge"}

\* C9 witness: a frame holding -inf, not-a-number and a magnitude above 1e100
SanitizedSpecials ==
    /\ ReturnedFrom("clean_dataframe_for_export")
    /\ Len(arg.df.rows) = 2
    /\ arg.df.rows[1][5] = NegInf /\ arg.df.rows[1][6] = NaN
    /\ arg.df.rows[2][5] = Huge(1)
    /\ ret.df.rows[1][5] = None /\ ret.df.rows[2][5] = Huge(1)
    /\ ret.values[2][5] = Str("")

(***************************************************************************)
(* Properties of the runs of main (checked under Spec)                     *)
(***************************************************************************)
Header == HeaderLine(<<"timestamp_utc">> \o RecordColumns)
IsHeader(line) == line = Header
Headers(lines) == {i \in 1..Len(lines) : IsHeader(lines[i])}
TailOf(lines, n) == SubSeq(lines, Len(lines) - n + 1, Len(lines))
IsPrefix(a, b) == Len(a) <= Len(b) /\ SubSeq(b, 1, Len(a)) = a
AssembleReturned == pc \in {"saved", "done"}

\* the records of the pass in progress: M configured entries, K derived ones
M == Len(cfgT) + Len(cfgS)
K == IF SpreadGuard(FredRows(cfgS, respS)) THEN 1 ELSE 0

\* C2: after N passes of assemble_and_save that start from no stores, none of
\* them failing and each over M >= 1 entries with K derived records, the
\* history store is one header row followed by the N x (M + K) data rows (the
\* header only in the first line), and the latest store is one header row
\* and the M + K rows of the last pass.
StoreRowCounts ==
    (log.passes >= 1 /\ ~log.faulted /\ ~log.emptied) =>
       /\ history.exists
       /\ Headers(history.lines) = {1}
       /\ Len(history.lines) = 1 + log.rows
       /\ latest.exists
       /\ Headers(latest.lines) = {1}
       /\ AssembleReturned =>
             /\ Len(latest.lines) = 1 + M + K
             /\ latest.lines = <<Header>> \o CsvRows(df)
             /\ \A i \in 1..Len(df.rows) : df.rows[i][1] = Stamp(passNo)

\* C2 witness: two passes done, the second without a spread record
TwoPassesStored ==
    /\ pc = "done" /\ log.passes = 2 /\ ~log.faulted /\ ~log.emptied
    /\ M = 3 /\ K = 0
    /\ Len(history.lines) = 1 + 4 + 3
    /\ Len(latest.lines) = 1 + 3

\* the batch of the pass in progress, as assemble_and_save builds it
CurrentBatch == Batch(<<yf_df, fred_df>>, passNo)

StoresAfterSave ==
    (AssembleReturned /\ df.rows # <<>>) =>
       /\ df = CurrentBatch
       /\ latest.lines = <<Header>> \o CsvRows(df)
       /\ Len(history.lines) >= Len(df.rows)
       /\ TailOf(history.lines, Len(df.rows)) = CsvRows(df)

HistoryAppendOnly == IsPrefix(history.lines, history'.lines)

EmptyPassWritesNothing ==
    (pc = "fetched" /\ CurrentBatch.rows = <<>>) => (latest' = latest /\ history' = history)

FetchFailed == \E i \in 1..Len(df.rows) : IsErrorTag(df.rows[i][9])
PersistenceFailed == env.faults # NoFaults

\* C4: main ends abnormally exactly when local persistence (creating the
\* output directory, overwriting the latest store, appending to the history
\* store) fails; failing fetches and a failing remote mirror never end it.
AbnormalIffPersistenceFails ==
    /\ pc = "crashed" <=> PersistenceFailed
    /\ pushResult # "raised"

\* C4 witness: a pass with a failed fetch and a failed remote call that ran
\* to completion
DoneDespiteFetchAndMirrorFailures ==
    /\ pc = "done" /\ FetchFailed /\ env.raiseAt > 0
    /\ Preconditions(env.settings)
    /\ pushResult = "False"

\* the step of main that calls push_to_google_sheets
PushStep == pc = "saved" /\ pc' # "saved"

\* C5: push_to_google_sheets never raises; with a precondition unmet (client
\* library, credentials, spreadsheet id) it returns False and performs no
\* remote operation; when credential parsing or a remote operation raises it
\* returns False; it returns True only when every remote operation of the
\* sync was performed.
PushNeverRaises ==
    [][PushStep =>
         /\ pushResult' \in {"True", "False"}
         /\ pc' = "done"
         /\ ~Preconditions(env'.settings) => pushResult' = "False" /\ remote' = remote
         /\ env'.raiseAt # 0 => pushResult' = "False"
         /\ pushResult' = "True" =>
               /\ Preconditions(env'.settings)
               /\ remote'.History.exists /\ remote'.Latest.exists
               /\ Len(remote'.History.rows) = Len(remote.History.rows) + Len(df.rows)
                     + (IF remote.History.exists \/ df.columns = <<>> THEN 0 ELSE 1)
               /\ TailOf(remote'.History.rows, Len(df.rows)) = SheetValues(df)
               /\ remote'.Latest.rows = AppendRow(<<>>, HeaderLine(df.columns)) \o SheetValues(df)
      ]_vars

\* C5 witness: a configured sync in which a remote call raised after the
\* History sheet had been written
PushFailedMidway ==
    /\ pc = "done" /\ pushResult = "False"
    /\ Preconditions(env.settings) /\ env.raiseAt > 0
    /\ remote.History.rows # <<>>
    /\ ~remote.Latest.exists

\* the value column is empty / missing
Absent(c) == c = Str("") \/ ~NotNull(c)
DataLines(lines) == {i \in 1..Len(lines) : lines[i][1].k = "ts"}

\* C6: for every record, as the adapters return it and as the stores hold it,
\* the value is absent if and only if the source is an error tag.
ValueAbsentIffErrorTag ==
    /\ \A i \in 1..Len(yf_df.rows) : Absent(yf_df.rows[i][4]) <=> IsErrorTag(yf_df.rows[i][8])
    /\ \A i \in 1..Len(fred_df.rows) :
          Absent(fred_df.rows[i][4]) <=> IsErrorTag(fred_df.rows[i][8])
    /\ \A i \in DataLines(latest.lines) :
          Absent(latest.lines[i][5]) <=> IsErrorTag(latest.lines[i][9])
    /\ \A i \in DataLines(history.lines) :
          Absent(history.lines[i][5]) <=> IsErrorTag(history.lines[i][9])

\* C10: the remote History sheet has the column header as its first row and
\* nowhere else; and after every sync that returns True the remote Latest
\* sheet is the column header followed by the rows of that pass's batch, the
\* same rows as the local latest store, also after a pass whose batch is
\* empty.
RemoteMirrorsLocal ==
    /\ remote.History.rows # <<>> => Headers(remote.History.rows) = {1}
    /\ (pc = "done" /\ pushResult = "True") =>
          /\ remote.Latest.rows = <<Header>> \o SheetValues(df)
          /\ remote.Latest.rows = latest.lines

====
